---- MODULE Spec2Model ----
(***************************************************************************)
(* A model of the Vleer music plugin (src/plugins/music.ts): the cover     *)
(* files of playlists and songs (updatePlaylistCover and the resolvers),   *)
(* the lazily built audio graph with its equalizer, and the queue with the *)
(* 'ended' listener.  The store (~/stores/music) and the settings store    *)
(* are not part of the sources at hand; their operations are modelled from *)
(* the written specification and are marked so where they are defined.     *)
(***************************************************************************)
EXTENDS Integers, Sequences, FiniteSets, TLC

VARIABLES
  disk,      \* the files under BaseDirectory.Audio: path -> bytes
  db,        \* table playlists: id -> persisted cover path (or NoPath)
  call,      \* the updatePlaylistCover calls in flight, one per caller
  res,       \* the cover-resolve call in flight
  blobs,     \* URL.createObjectURL registry: url number -> bytes
  seen,      \* per id, the bytes the playlist resolvers have returned so far
  audioContext,   \* musicStore.player.audioContext: NoNode or a node handle
  ctxState,       \* audioContext.state: "suspended" or "running"
  sourceNode,     \* musicStore.player.sourceNode
  analyser,       \* musicStore.player.analyser
  eqFilters,      \* musicStore.player.eqFilters: per band [node, gain]
  edges,          \* the connections made with connect(): <<from, to>>
  constructions,  \* how many times the graph was built
  tasks,          \* ensureAudioContextAndFilters calls suspended at an await
  eqSettings,     \* settingsStore.getEq(): the persisted gain of each band
  settingsVolume, \* settingsStore.getVolume()
  audio,          \* musicStore.player.audio: [paused, volume]
  queue,          \* the store's queue of song ids
  cursor,         \* the store's position in the queue
  currentSongId,  \* musicStore.player.currentSongId
  endedPending,   \* 'ended' events fired and not yet dispatched
  endedCount,     \* 'ended' events fired so far
  handled,        \* what the last dispatched 'ended' listener did
  last            \* the last call or event: [op, arg, err, n, from]

coverVars == <<disk, db, call, res, blobs, seen>>

playerVars ==
  <<audioContext, ctxState, sourceNode, analyser, eqFilters, edges,
    constructions, tasks, eqSettings, settingsVolume, audio, queue, cursor,
    currentSongId, endedPending, endedCount, handled, last>>

vars == <<coverVars, playerVars>>

-----------------------------------------------------------------------------
(* Paths.  A path is a sequence of atoms; "." and "/" are atoms of their   *)
(* own, so that split('.') and the template strings are computed.          *)

NoPath == <<>>

CoversDir == <<"Vleer", "/", "Covers", "/">>

\* ['png', 'jpg', 'jpeg', 'gif'], in probe order
existingExtensions == <<"png", "jpg", "jpeg", "gif">>

\* `Vleer/Covers/${playlistId}.${ext}`
oldCoverPath(playlistId, ext) == CoversDir \o <<playlistId, ".", ext>>

\* The index of the last "." of a path, 0 when it has none.
LastDot(path) ==
  LET dots == {i \in 1..Len(path) : path[i] = "."}
  IN  IF dots = {} THEN 0 ELSE CHOOSE i \in dots : \A j \in dots : j <= i

\* coverPath.path.split('.').pop(): what follows the last ".", the whole
\* path when it holds no "."
extension(path) == SubSeq(path, LastDot(path) + 1, Len(path))

\* `Vleer/Covers/${playlistId}.${extension}`
newCoverPath(playlistId, path) == CoversDir \o <<playlistId, ".">> \o extension(path)

IsPrefix(s, t) == Len(s) <= Len(t) /\ SubSeq(t, 1, Len(s)) = s

\* The files named Vleer/Covers/<id>.<anything> on a disk.
CoverFilesOf(d, id) == {p \in DOMAIN d : IsPrefix(CoversDir \o <<id, ".">>, p)}

\* The part of a disk that holds the covers of id.
CoversOf(d, id) == [p \in CoverFilesOf(d, id) |-> d[p]]

-----------------------------------------------------------------------------
(* The filesystem collaborator (@tauri-apps/plugin-fs).                    *)

exists(d, path) == path \in DOMAIN d

remove(d, path) == [p \in DOMAIN d \ {path} |-> d[p]]

writeFile(d, path, data) ==
  [p \in DOMAIN d \cup {path} |-> IF p = path THEN data ELSE d[p]]

readFile(d, path) == d[path]

-----------------------------------------------------------------------------
(* JavaScript values passed as coverPath.                                  *)

JsNull == [kind |-> "null", pkind |-> "undefined", str |-> NoPath]
JsString(s) == [kind |-> "string", pkind |-> "undefined", str |-> s]
JsObjectNoPath == [kind |-> "object", pkind |-> "undefined", str |-> NoPath]
JsObjectNumPath == [kind |-> "object", pkind |-> "number", str |-> NoPath]
JsObjectPath(s) == [kind |-> "object", pkind |-> "string", str |-> s]

\* !v
Falsy(v) == v.kind = "null" \/ (v.kind = "string" /\ v.str = NoPath)

\* typeof v: null is an "object"
Typeof(v) == IF v.kind = "null" THEN "object" ELSE v.kind

\* !coverPath || typeof coverPath !== 'object' || typeof coverPath.path !== 'string'
InvalidCoverPath(coverPath) ==
  \/ Falsy(coverPath)
  \/ Typeof(coverPath) # "object"
  \/ coverPath.pkind # "string"

-----------------------------------------------------------------------------
(* The inputs.                                                             *)

PlaylistIds == {"p1", "p2"}

SrcPng == <<"in", "/", "a", ".", "png">>
SrcJpg == <<"in", "/", "b", ".", "jpg">>
SrcWebp == <<"in", "/", "c", ".", "webp">>
SrcMissing == <<"in", "/", "m", ".", "gif">>
SrcOwnCover == oldCoverPath("p1", "png")

\* The source images present on every initial disk, with their bytes.
SourceFiles == (SrcPng :> 1) @@ (SrcJpg :> 2) @@ (SrcWebp :> 3)

SourcePaths == {SrcPng, SrcJpg, SrcWebp, SrcMissing, SrcOwnCover}

CoverArgs ==
  {JsNull, JsString(SrcPng), JsObjectNoPath, JsObjectNumPath}
    \cup {JsObjectPath(s) : s \in SourcePaths}

Callers == {1, 2}

\* The ids cover resolution is asked for: a playlist and a song.
ResolveIds == {"p1", "s1"}

\* How many object urls are created in a run.
MaxUrls == 3

IdleCall ==
  [pc |-> "idle", playlistId |-> "p1", coverPath |-> JsNull, i |-> 0,
   data |-> 0, ops |-> 0, preCovers |-> <<>>, preCover |-> NoPath]

Running == {"probe", "remove", "read", "write", "update"}

IdleRes ==
  [pc |-> "idle", fn |-> "none", id |-> "p1", i |-> 0,
   out |-> [kind |-> "none", url |-> 0]]

-----------------------------------------------------------------------------
(* updatePlaylistCover, one action per await point.                        *)

NoCallRunning == \A c \in Callers : call[c].pc \notin Running

Entered(c, playlistId, coverPath) ==
  [IdleCall EXCEPT !.playlistId = playlistId, !.coverPath = coverPath,
                   !.preCovers = CoversOf(disk, playlistId),
                   !.preCover = db[playlistId]]

\* The head of the call with the check of coverPath left to the try block:
\* every call goes on to probe the old covers.
UpdatePlaylistCoverUnchecked(c, playlistId, coverPath) ==
  /\ call[c].pc \notin Running
  /\ call' = [call EXCEPT ![c] =
        [Entered(c, playlistId, coverPath) EXCEPT !.pc = "probe", !.i = 1]]
  /\ UNCHANGED <<disk, db, res, blobs, seen, playerVars>>

\* The head of the call, to the first await: the check of coverPath, then
\* extension, newCoverName and newCoverPath, then the loop's first probe.
UpdatePlaylistCover(c, playlistId, coverPath) ==
  /\ call[c].pc \notin Running
  /\ call' = [call EXCEPT ![c] =
        IF InvalidCoverPath(coverPath)
        THEN [Entered(c, playlistId, coverPath) EXCEPT !.pc = "typeError"]
        ELSE [Entered(c, playlistId, coverPath) EXCEPT !.pc = "probe", !.i = 1]]
  /\ UNCHANGED <<disk, db, res, blobs, seen, playerVars>>

\* for (let ext of existingExtensions): the next extension, or the try block
NextExt(k) ==
  IF k.i < Len(existingExtensions)
  THEN [k EXCEPT !.pc = "probe", !.i = k.i + 1]
  ELSE [k EXCEPT !.pc = "read"]

\* await exists(oldCoverPath); a rejection leaves the call through no catch
ProbeOld(c, ok) ==
  LET k == [call[c] EXCEPT !.ops = @ + 1]
      old == oldCoverPath(k.playlistId, existingExtensions[k.i])
  IN  /\ call[c].pc = "probe"
      /\ call' = [call EXCEPT ![c] =
            IF ~ok THEN [k EXCEPT !.pc = "ioError"]
            ELSE IF exists(disk, old) THEN [k EXCEPT !.pc = "remove"]
            ELSE NextExt(k)]
      /\ UNCHANGED <<disk, db, res, blobs, seen, playerVars>>

\* await remove(oldCoverPath); removing a file that is gone rejects
RemoveOld(c, ok) ==
  LET k == [call[c] EXCEPT !.ops = @ + 1]
      old == oldCoverPath(k.playlistId, existingExtensions[k.i])
  IN  /\ call[c].pc = "remove"
      /\ IF ok /\ exists(disk, old)
         THEN /\ disk' = remove(disk, old)
              /\ call' = [call EXCEPT ![c] = NextExt(k)]
         ELSE /\ disk' = disk
              /\ call' = [call EXCEPT ![c] = [k EXCEPT !.pc = "ioError"]]
      /\ UNCHANGED <<db, res, blobs, seen, playerVars>>

\* const data = await readFile(coverPath.path)
ReadSource(c, ok) ==
  LET k == [call[c] EXCEPT !.ops = @ + 1]
      src == k.coverPath.str
  IN  /\ call[c].pc = "read"
      /\ call' = [call EXCEPT ![c] =
            IF ok /\ exists(disk, src)
            THEN [k EXCEPT !.pc = "write", !.data = readFile(disk, src)]
            ELSE [k EXCEPT !.pc = "failed"]]
      /\ UNCHANGED <<disk, db, res, blobs, seen, playerVars>>

\* await writeFile(newCoverPath, data)
WriteCover(c, ok) ==
  LET k == [call[c] EXCEPT !.ops = @ + 1]
      new == newCoverPath(k.playlistId, k.coverPath.str)
  IN  /\ call[c].pc = "write"
      /\ IF ok
         THEN /\ disk' = writeFile(disk, new, k.data)
              /\ call' = [call EXCEPT ![c] = [k EXCEPT !.pc = "update"]]
         ELSE /\ disk' = disk
              /\ call' = [call EXCEPT ![c] = [k EXCEPT !.pc = "failed"]]
      /\ UNCHANGED <<db, res, blobs, seen, playerVars>>

\* await db.execute("UPDATE playlists SET cover = ? WHERE id = ?", ...)
ExecuteUpdate(c, ok) ==
  LET k == [call[c] EXCEPT !.ops = @ + 1]
      new == newCoverPath(k.playlistId, k.coverPath.str)
  IN  /\ call[c].pc = "update"
      /\ IF ok
         THEN /\ db' = [id \in DOMAIN db |->
                         IF id = k.playlistId THEN new ELSE db[id]]
              /\ call' = [call EXCEPT ![c] = [k EXCEPT !.pc = "done"]]
         ELSE /\ db' = db
              /\ call' = [call EXCEPT ![c] = [k EXCEPT !.pc = "failed"]]
      /\ UNCHANGED <<disk, res, blobs, seen, playerVars>>

-----------------------------------------------------------------------------
(* The cover resolvers, one action per await point.                        *)

\* const extensions = ['png', 'jpg', 'jpeg', 'gif'] of getCoverURLFromID
extensionsOfGetCoverURL == <<"png", "jpg", "jpeg", "gif">>

\* The probe list with its first two extensions exchanged.
extensionsJpgFirst == <<"jpg", "png", "jpeg", "gif">>

\* const extensions = ['png', 'jpg', 'jpeg', 'gif'] of searchCoverByPlaylistId
extensionsOfSearchCover == <<"png", "jpg", "jpeg", "gif">>

ExtensionsOf(fn) ==
  IF fn = "getCoverURLFromID" THEN extensionsOfGetCoverURL
  ELSE extensionsOfSearchCover

\* return "/cover.png": url 0 stands for the static placeholder
DefaultCover == [kind |-> "static", url |-> 0]

\* URL.createObjectURL(new Blob([contents])): a fresh url for every call
NextUrl == Cardinality(DOMAIN blobs) + 1

CanResolve == res.pc \notin {"probe", "read"} /\ NextUrl <= MaxUrls

GetCoverURLFromID(playlistId) ==
  /\ CanResolve
  /\ res' = [IdleRes EXCEPT !.pc = "probe", !.fn = "getCoverURLFromID",
                            !.id = playlistId, !.i = 1]
  /\ UNCHANGED <<disk, db, call, blobs, seen, playerVars>>

SearchCoverByPlaylistId(playlistId) ==
  /\ CanResolve
  /\ res' = [IdleRes EXCEPT !.pc = "probe", !.fn = "searchCoverByPlaylistId",
                            !.id = playlistId, !.i = 1]
  /\ UNCHANGED <<disk, db, call, blobs, seen, playerVars>>

\* getCoverFromID goes straight to readFile(`Vleer/Covers/${songId}.png`)
GetCoverFromID(songId) ==
  /\ CanResolve
  /\ res' = [IdleRes EXCEPT !.pc = "read", !.fn = "getCoverFromID",
                            !.id = songId, !.i = 1]
  /\ UNCHANGED <<disk, db, call, blobs, seen, playerVars>>

\* The file a resolve call is probing or reading.
ResPath ==
  IF res.fn = "getCoverFromID" THEN oldCoverPath(res.id, "png")
  ELSE oldCoverPath(res.id, ExtensionsOf(res.fn)[res.i])

\* const coverExists = await exists(...); the loop's end returns "/cover.png"
ResolveProbe ==
  /\ res.pc = "probe"
  /\ IF exists(disk, ResPath)
     THEN /\ res' = [res EXCEPT !.pc = "read"]
          /\ seen' = seen
     ELSE IF res.i < Len(ExtensionsOf(res.fn))
     THEN /\ res' = [res EXCEPT !.i = res.i + 1]
          /\ seen' = seen
     ELSE /\ res' = [res EXCEPT !.pc = "done", !.out = DefaultCover]
          /\ seen' = [seen EXCEPT ![res.id] = @ \cup {0}]
  /\ UNCHANGED <<disk, db, call, blobs, playerVars>>

\* const contents = await readFile(...); return URL.createObjectURL(blob)
ResolveRead ==
  /\ res.pc = "read"
  /\ IF exists(disk, ResPath)
     THEN /\ blobs' = blobs @@ (NextUrl :> readFile(disk, ResPath))
          /\ res' = [res EXCEPT !.pc = "done",
                                !.out = [kind |-> "blob", url |-> NextUrl]]
          /\ seen' = IF res.fn = "getCoverFromID" THEN seen
                     ELSE [seen EXCEPT ![res.id] = @ \cup {readFile(disk, ResPath)}]
     ELSE /\ blobs' = blobs
          /\ res' = [res EXCEPT !.pc = "failed"]
          /\ seen' = seen
  /\ UNCHANGED <<disk, db, call, playerVars>>

\* What a finished resolve call returned: the bytes behind its url, 0 for
\* the placeholder.
Returned == IF res.out.kind = "blob" THEN blobs[res.out.url] ELSE 0

-----------------------------------------------------------------------------
(* The player's state before anything was done with it.                    *)

NoNode == 0
NoSong == "none"

\* How many equalizer bands the model keeps.
NumBands == 2

Bands == 1..NumBands

\* The gains, in dB, a band is set to.
Gains == {-6, 0, 3}

\* The songs of the catalog, and an id that is not in it.
Catalog == {"a", "b"}
UnknownSong == "zz"

\* The longest queue that is set.
MaxQueue == 2

\* How many tracks play to their end in a run.
MaxEnded == 2

\* How many ensureAudioContextAndFilters calls wait at an await at once.
MaxTasks == 2

\* A gain of the audio element as <<hi, lo>>: hi * 10^-8 + lo * 10^-16.
FullVolume == <<100000000, 0>>
Silence == <<0, 0>>

\* The record kept of a call or an event: its name, with its argument, the
\* error it signalled, the length of the run of calls it belongs to and the
\* value the run began at where a claim is about them.
Op(name) == [op |-> name, arg |-> "", err |-> "", n |-> 0, from |-> 0]

PlayerInit ==
  /\ audioContext = NoNode
  /\ ctxState = "none"
  /\ sourceNode = NoNode
  /\ analyser = NoNode
  /\ eqFilters = <<>>
  /\ edges = {}
  /\ constructions = 0
  /\ tasks = [afterApply |-> 0, awaitResume |-> 0]
  /\ eqSettings = [b \in Bands |-> [bandIndex |-> b, gainDb |-> 0]]
  /\ settingsVolume = 50
  /\ audio = [paused |-> TRUE, ended |-> FALSE, volume |-> FullVolume]
  /\ queue = <<>>
  /\ cursor = 0
  /\ currentSongId = NoSong
  /\ endedPending = 0
  /\ endedCount = 0
  /\ handled = [events |-> 0, skips |-> 0]
  /\ last = Op("init")

-----------------------------------------------------------------------------
(* Cover updates, one call after the other, on a Covers directory that     *)
(* starts with at most one cover per playlist.                             *)

\* The bytes of a cover that is on the disk from the start.
CoverBytes(id, ext) ==
  (IF id = "p1" THEN 10 ELSE 20)
    + CHOOSE k \in 1..Len(existingExtensions) : existingExtensions[k] = ext

\* The initial covers of one playlist: none, or one of a known extension.
InitialCovers(id) ==
  {<<>>} \cup {(oldCoverPath(id, e) :> CoverBytes(id, e)) : e \in {"png", "gif"}}

CoverInit ==
  /\ \E c1 \in InitialCovers("p1"), c2 \in InitialCovers("p2") :
        /\ disk = SourceFiles @@ c1 @@ c2
        /\ db = [id \in PlaylistIds |->
                   LET c == IF id = "p1" THEN c1 ELSE c2
                   IN  IF DOMAIN c = {} THEN NoPath
                       ELSE CHOOSE p \in DOMAIN c : TRUE]
  /\ call = [c \in Callers |-> IdleCall]
  /\ res = IdleRes
  /\ blobs = <<>>
  /\ seen = [id \in ResolveIds |-> {}]
  /\ PlayerInit

\* One caller calls updatePlaylistCover when its previous call has ended.
CallInTurn(playlistId, coverPath) ==
  NoCallRunning /\ UpdatePlaylistCover(1, playlistId, coverPath)

CoverNext ==
  \/ \E id \in PlaylistIds, cp \in CoverArgs : CallInTurn(id, cp)
  \/ \E c \in Callers, ok \in BOOLEAN : ProbeOld(c, ok)
  \/ \E c \in Callers, ok \in BOOLEAN : RemoveOld(c, ok)
  \/ \E c \in Callers, ok \in BOOLEAN : ReadSource(c, ok)
  \/ \E c \in Callers, ok \in BOOLEAN : WriteCover(c, ok)
  \/ \E c \in Callers, ok \in BOOLEAN : ExecuteUpdate(c, ok)

SpecCover == CoverInit /\ [][CoverNext]_vars

-----------------------------------------------------------------------------
(* Cover updates of one playlist by two callers whose calls overlap at     *)
(* their await points; no operation of the filesystem or the database      *)
(* fails but remove of a file that is gone.                                *)

\* The playlist both callers update.
SharedId == "p1"

\* The sources of the overlapping calls: suffixes the delete loop knows.
OverlapSources == {SrcPng, SrcJpg}

\* A caller calls updatePlaylistCover when its own previous call has ended,
\* whatever the other caller's call is at.
OverlapNext ==
  \/ \E c \in Callers, s \in OverlapSources :
        UpdatePlaylistCover(c, SharedId, JsObjectPath(s))
  \/ \E c \in Callers : ProbeOld(c, TRUE)
  \/ \E c \in Callers : RemoveOld(c, TRUE)
  \/ \E c \in Callers : ReadSource(c, TRUE)
  \/ \E c \in Callers : WriteCover(c, TRUE)
  \/ \E c \in Callers : ExecuteUpdate(c, TRUE)

SpecCoverOverlap == CoverInit /\ [][OverlapNext]_vars

-----------------------------------------------------------------------------
(* Cover resolution on a disk that does not change: every set of cover     *)
(* files of the known extensions, for a playlist id and a song id.         *)

ResolveCoverPaths == {oldCoverPath(id, e) : id \in ResolveIds, e \in {"png", "jpg", "jpeg", "gif"}}

ResolveBytes(p) ==
  CHOOSE n \in 11..24 : \E e \in {"png", "jpg", "jpeg", "gif"} :
    \/ p = oldCoverPath("p1", e) /\ n = CoverBytes("p1", e)
    \/ p = oldCoverPath("s1", e) /\ n = CoverBytes("s1", e)

ResolveInit ==
  /\ \E S \in SUBSET ResolveCoverPaths : disk = [p \in S |-> ResolveBytes(p)]
  /\ db = [id \in PlaylistIds |-> NoPath]
  /\ call = [c \in Callers |-> IdleCall]
  /\ res = IdleRes
  /\ blobs = <<>>
  /\ seen = [id \in ResolveIds |-> {}]
  /\ PlayerInit

ResolveNext ==
  \/ \E id \in ResolveIds : GetCoverURLFromID(id)
  \/ \E id \in ResolveIds : SearchCoverByPlaylistId(id)
  \/ \E id \in ResolveIds : GetCoverFromID(id)
  \/ ResolveProbe
  \/ ResolveRead

SpecResolve == ResolveInit /\ [][ResolveNext]_vars

-----------------------------------------------------------------------------
(* The claims about covers.                                                *)

Failed == {"typeError", "ioError", "failed"}

\* C1: after any sequence of completed updatePlaylistCover calls, starting
\* from at most one cover per id, every playlist id has 0 or 1 cover files
\* named <id>.<anything>.
C1_AtMostOneCoverPerId ==
  NoCallRunning =>
    \A id \in PlaylistIds : Cardinality(CoverFilesOf(disk, id)) <= 1

\* C2: a call that ended in an error left either the covers and the
\* persisted path as they were before the call, or the old covers removed,
\* the new cover in place and its path persisted.
C2_NoPartialApply ==
  \A c \in Callers :
    LET k == call[c]
        new == newCoverPath(k.playlistId, k.coverPath.str)
    IN  k.pc \in Failed =>
          \/ /\ CoversOf(disk, k.playlistId) = k.preCovers
             /\ db[k.playlistId] = k.preCover
          \/ /\ CoverFilesOf(disk, k.playlistId) = {new}
             /\ db[k.playlistId] = new

\* A cover reference of the shape {path: string}.
WellFormed(v) == v.kind = "object" /\ v.pkind = "string"

\* C3: a call whose cover reference is not a well-formed {path: string}
\* descriptor has failed with the validation error without one filesystem
\* or database operation: the covers and the persisted path are unchanged.
C3_InvalidRejectedFirst ==
  \A c \in Callers :
    LET k == call[c]
    IN  k.pc # "idle" /\ ~WellFormed(k.coverPath) =>
          /\ k.pc = "typeError"
          /\ k.ops = 0
          /\ CoversOf(disk, k.playlistId) = k.preCovers
          /\ db[k.playlistId] = k.preCover

\* C3's case: a call with {path: 42} was rejected while the playlist has a
\* cover on disk and a persisted path.
C3_Witness ==
  \E c \in Callers :
    /\ call[c].pc = "typeError"
    /\ call[c].coverPath = JsObjectNumPath
    /\ CoverFilesOf(disk, call[c].playlistId) # {}
    /\ db[call[c].playlistId] # NoPath

\* The fixed probe order of the cover resolution.
ProbeOrder == <<"png", "jpg", "jpeg", "gif">>

\* The positions of ProbeOrder whose cover file of id is on the disk.
Present(id) == {k \in 1..4 : exists(disk, oldCoverPath(id, ProbeOrder[k]))}

\* The bytes of the first present cover of id in ProbeOrder, 0 (the
\* placeholder) when none is present.
Expected(id) ==
  IF Present(id) = {} THEN 0
  ELSE disk[oldCoverPath(id, ProbeOrder[CHOOSE k \in Present(id) :
                                          \A j \in Present(id) : k <= j])]

PlaylistResolvers == {"getCoverURLFromID", "searchCoverByPlaylistId"}

\* C4: on an unchanged disk, getCoverURLFromID and searchCoverByPlaylistId
\* return the content of the first present extension in the order png, jpg,
\* jpeg, gif, and repeated calls for an id return the content of one file.
C4_ResolveDeterministic ==
  /\ res.fn \in PlaylistResolvers =>
        /\ res.pc # "failed"
        /\ res.pc = "done" => Returned = Expected(res.id)
  /\ \A id \in ResolveIds : Cardinality(seen[id]) <= 1

\* C4's case: with jpg and gif both on disk and no png, a second call has
\* returned the jpg's bytes under a new url, as the first did.
C4_Witness ==
  /\ res.pc = "done"
  /\ res.fn = "searchCoverByPlaylistId"
  /\ Present(res.id) = {2, 4}
  /\ res.out = [kind |-> "blob", url |-> 2]
  /\ blobs[1] = blobs[2]
  /\ blobs[2] = disk[oldCoverPath(res.id, "jpg")]
  /\ seen[res.id] = {blobs[2]}

\* C5: every resolve operation returns the placeholder, and does not fail,
\* for an id with no cover file of a known extension, and returns the
\* file's content for an id whose only cover is a jpg, jpeg or gif.
C5_FallbackNeverFails ==
  res.pc \in {"done", "failed"} =>
    /\ Present(res.id) = {} => res.pc = "done" /\ res.out = DefaultCover
    /\ \A k \in 2..4 :
          Present(res.id) = {k} =>
            /\ res.pc = "done"
            /\ Returned = disk[oldCoverPath(res.id, ProbeOrder[k])]

-----------------------------------------------------------------------------
(* The volume curve of setVolume.                                          *)

minVolume == 1
maxVolume == 100
minp == 0

Max(a, b) == IF a >= b THEN a ELSE b
Min(a, b) == IF a <= b THEN a ELSE b

\* A gain is <<hi, lo>>, the number hi * 10^-8 + lo * 10^-16.
GainLeq(g, h) == g[1] < h[1] \/ (g[1] = h[1] /\ g[2] <= h[2])

\* Math.exp(minv + scale * p) in IEEE double arithmetic for p = 1, ..., 100,
\* with minv = Math.log(0.001), maxv = Math.log(1) and
\* scale = (maxv - minv) / (maxp - minp): each double cut to 16 decimals.
\* The first is 0.0010715193052376064, the last 0.9999999999999991.
ExpTable ==
  <<
     <<107151, 93052376>>, <<114815, 36214968>>, <<123026, 87708123>>, <<131825, 67385564>>,
     <<141253, 75446227>>, <<151356, 12484362>>, <<162181, 973589>>, <<173780, 8287493>>,
     <<186208, 71366628>>, <<199526, 23149688>>, <<213796, 20895022>>, <<229086, 76527677>>,
     <<245470, 89156850>>, <<263026, 79918953>>, <<281838, 29312644>>, <<301995, 17204020>>,
     <<323593, 65692962>>, <<346736, 85045253>>, <<371535, 22909717>>, <<398107, 17055349>>,
     <<426579, 51880159>>, <<457088, 18961487>>, <<489778, 81936844>>, <<524807, 46024977>>,
     <<562341, 32519034>>, <<602559, 58607435>>, <<645654, 22903465>>, <<691830, 97091893>>,
     <<741310, 24130091>>, <<794328, 23472428>>, <<851138, 3820237>>, <<912010, 83935590>>,
     <<977237, 22095581>>, <<1047128, 54805089>>, <<1122018, 45430196>>, <<1202264, 43461741>>,
     <<1288249, 55169313>>, <<1380384, 26460288>>, <<1479108, 38816820>>, <<1584893, 19246111>>,
     <<1698243, 65246174>>, <<1819700, 85860998>>, <<1949844, 59975804>>, <<2089296, 13085403>>,
     <<2238721, 13856833>>, <<2398832, 91901949>>, <<2570395, 78276886>>, <<2754228, 70333816>>,
     <<2951209, 22666638>>, <<3162277, 66016837>>, <<3388441, 56139202>>, <<3630780, 54770101>>,
     <<3890451, 44994280>>, <<4168693, 83470335>>, <<4466835, 92150962>>, <<4786300, 92322638>>,
     <<5128613, 83991364>>, <<5495408, 73857624>>, <<5888436, 55355588>>, <<6309573, 44480193>>,
     <<6760829, 75391981>>, <<7244359, 60074989>>, <<7762471, 16628691>>, <<8317637, 71102670>>,
     <<8912509, 38133744>>, <<9549925, 86021435>>, <<10232929, 92280753>>, <<10964781, 96143184>>,
     <<11748975, 54939529>>, <<12589254, 11794166>>, <<13489628, 82591652>>, <<14454397, 70745926>>,
     <<15488166, 18912481>>, <<16595869, 7437559>>, <<17782794, 10038921>>, <<19054607, 17963246>>,
     <<20417379, 44669528>>, <<21877616, 23949550>>, <<23442288, 15319921>>, <<25118864, 31509579>>,
     <<26915348, 3926913>>, <<28840315, 3126605>>, <<30902954, 32513588>>, <<33113112, 14825908>>,
     <<35481338, 92335754>>, <<38018939, 63205610>>, <<40738027, 78041124>>, <<43651583, 22401659>>,
     <<46773514, 12871980>>, <<50118723, 36272719>>, <<53703179, 63702522>>, <<57543993, 73371567>>,
     <<61659500, 18614817>>, <<66069344, 80075953>>, <<70794578, 43841376>>, <<75857757, 50291833>>,
     <<81283051, 61640985>>, <<87096358, 99560803>>, <<93325430, 7969904>>, <<99999999, 99999991>>
  >>

\* The same expression for the two values of p outside 1..100 that a call
\* without the clamp would reach from Levels.
ExpCurve(volume) ==
  CASE volume - minp \in DOMAIN ExpTable -> ExpTable[volume - minp]
    [] volume - minp = -5 -> <<70794, 57843841>>
    [] volume - minp = 110 -> <<199526231, 49688775>>

\* setVolume without the clamp to minVolume..maxVolume.
setVolumeUnclamped(volume) ==
  IF volume = 0 THEN Silence ELSE ExpCurve(volume)

\* setVolume(volume): what audio.volume is set to
setVolume(volume) ==
  IF volume = 0 THEN Silence
  ELSE ExpCurve(Max(minVolume, Min(maxVolume, volume)))

-----------------------------------------------------------------------------
(* The store's operations the plugin calls, as the specification describes *)
(* them (the store is not among the sources).                              *)

\* The handle of node k of the n-th graph built.
Handle(n, k) == 10 * n + k

\* musicStore.createEqFilters(): one filter per band, at its default gain
createEqFilters(n) == [b \in Bands |-> [node |-> Handle(n, 3 + b), gain |-> 0]]

\* musicStore.connectEqFilters(): source -> each filter in band order ->
\* analyser
connectEqFilters(source, filters, sink) ==
  IF Len(filters) = 0 THEN {<<source, sink>>}
  ELSE {<<source, filters[1].node>>}
         \cup {<<filters[b].node, filters[b + 1].node>> : b \in 1..(Len(filters) - 1)}
         \cup {<<filters[Len(filters)].node, sink>>}

\* The gain an entry of the argument of applyEqSettings carries: the gainDb
\* of a settings entry; for a filter node, the value of its own gain.
GainOf(entry) ==
  IF "gainDb" \in DOMAIN entry THEN entry.gainDb ELSE entry.gain

\* musicStore.applyEqSettings(settings): writes every band's gain to the
\* corresponding filter
applyEqSettings(filters, settings) ==
  [b \in DOMAIN filters |-> [filters[b] EXCEPT !.gain = GainOf(settings[b])]]

\* musicStore.skip(): the cursor moves on by one and wraps; an empty queue
\* is left alone
storeSkip(q, cur) == IF Len(q) = 0 THEN cur ELSE (cur + 1) % Len(q)

\* musicStore.rewind(): past the restart threshold the current track starts
\* again and the cursor stays; below it the cursor moves back by one and
\* wraps to the last index; an empty queue is left alone
storeRewind(q, cur, restart) ==
  IF Len(q) = 0 \/ restart THEN cur ELSE (cur - 1 + Len(q)) % Len(q)

\* musicStore.setQueue(ids): the queue is replaced, the cursor is 0
storeSetQueue(ids) == [queue |-> ids, cursor |-> 0]

\* musicStore.setSong(id): an id of the catalog is loaded, paused; any
\* other id is refused with NotFound and nothing changes
storeSetSong(id) ==
  IF id \in Catalog
  THEN [song |-> id, audio |-> [audio EXCEPT !.paused = TRUE, !.ended = FALSE],
        error |-> ""]
  ELSE [song |-> currentSongId, audio |-> audio, error |-> "NotFound"]

\* musicStore.setEqGain(bandIndex, gainDb): a band of the fixed set gets the
\* gain in the persisted settings and, once the graph is built, in its live
\* filter; any other index is refused
storeSetEqGain(bandIndex, gainDb) ==
  IF bandIndex \in Bands
  THEN [settings |-> [eqSettings EXCEPT ![bandIndex].gainDb = gainDb],
        filters |-> IF eqFilters = <<>> THEN eqFilters
                    ELSE [eqFilters EXCEPT ![bandIndex].gain = gainDb]]
  ELSE [settings |-> eqSettings, filters |-> eqFilters]

\* musicStore.play(): starts rendering the loaded song
storePlay(a) ==
  IF currentSongId = NoSong THEN a
  ELSE [a EXCEPT !.paused = FALSE, !.ended = FALSE]

-----------------------------------------------------------------------------
(* ensureAudioContextAndFilters, one action per await point.               *)

graphVars == <<audioContext, ctxState, sourceNode, analyser, eqFilters, edges, constructions>>

TasksInFlight == tasks.afterApply + tasks.awaitResume

\* The test with which the graph is also rebuilt while it is suspended.
NeedsGraphUnlessRunning == ctxState # "running"

\* if (!musicStore.player.audioContext)
NeedsGraph == audioContext = NoNode

\* The build of the graph, up to the first await of the call.  A new
\* AudioContext starts in state s.
BuildGraph(s) ==
  LET n == constructions + 1
      ctx == Handle(n, 0)
      destination == Handle(n, 1)
      source == Handle(n, 2)
      an == Handle(n, 3)
      filters == createEqFilters(n)
  IN  /\ audioContext' = ctx
      /\ ctxState' = s
      /\ sourceNode' = source
      /\ analyser' = an
      /\ edges' = edges \cup {<<source, an>>, <<an, destination>>}
                        \cup connectEqFilters(source, filters, an)
      /\ eqFilters' = applyEqSettings(filters, filters)
      /\ constructions' = n
      /\ tasks' = [tasks EXCEPT !.afterApply = @ + 1]

\* The call with the equalizer settings applied to the graph that exists,
\* too.
EnsureAndReapply(s) ==
  IF NeedsGraph THEN BuildGraph(s)
  ELSE /\ eqFilters' = applyEqSettings(eqFilters, eqSettings)
       /\ tasks' = [tasks EXCEPT !.afterApply = @ + 1]
       /\ UNCHANGED <<audioContext, ctxState, sourceNode, analyser, edges,
                      constructions>>

\* The call up to its first await.
EnsureAudioContextAndFilters(s) ==
  IF NeedsGraph THEN BuildGraph(s)
  ELSE IF ctxState = "suspended"
  THEN /\ tasks' = [tasks EXCEPT !.awaitResume = @ + 1]
       /\ UNCHANGED graphVars
  ELSE UNCHANGED <<graphVars, tasks>>

\* ensureAudioContextAndFilters() called on its own
CallEnsure(s) ==
  /\ TasksInFlight < MaxTasks
  /\ EnsureAudioContextAndFilters(s)
  /\ last' = Op("ensure")
  /\ UNCHANGED <<coverVars, eqSettings, settingsVolume, audio, queue, cursor,
                 currentSongId, endedPending, endedCount, handled>>

\* The call goes on after await musicStore.applyEqSettings(...): it calls
\* audioContext.resume() when the context is suspended.
EnsureAfterApply ==
  /\ tasks.afterApply > 0
  /\ tasks' = IF ctxState = "suspended"
              THEN [afterApply |-> tasks.afterApply - 1,
                    awaitResume |-> tasks.awaitResume + 1]
              ELSE [tasks EXCEPT !.afterApply = @ - 1]
  /\ last' = Op("ensureAfterApply")
  /\ UNCHANGED <<coverVars, graphVars, eqSettings, settingsVolume, audio, queue,
                 cursor, currentSongId, endedPending, endedCount, handled>>

\* await audioContext.resume() is over: the context runs
ResumeDone ==
  /\ tasks.awaitResume > 0
  /\ tasks' = [tasks EXCEPT !.awaitResume = @ - 1]
  /\ ctxState' = "running"
  /\ last' = Op("resumeDone")
  /\ UNCHANGED <<coverVars, audioContext, sourceNode, analyser, eqFilters, edges,
                 constructions, eqSettings, settingsVolume, audio, queue, cursor,
                 currentSongId, endedPending, endedCount, handled>>

\* The host's power management suspends a running context.
HostSuspend ==
  /\ audioContext # NoNode
  /\ ctxState = "running"
  /\ ctxState' = "suspended"
  /\ last' = Op("hostSuspend")
  /\ UNCHANGED <<coverVars, audioContext, sourceNode, analyser, eqFilters, edges,
                 constructions, tasks, eqSettings, settingsVolume, audio, queue,
                 cursor, currentSongId, endedPending, endedCount, handled>>

-----------------------------------------------------------------------------
(* The transport, the equalizer and the queue.                             *)

\* play(): ensureAudioContextAndFilters() is not awaited
Play(s) ==
  /\ TasksInFlight < MaxTasks
  /\ EnsureAudioContextAndFilters(s)
  /\ audio' = storePlay([audio EXCEPT !.volume = setVolume(settingsVolume)])
  /\ last' = Op("play")
  /\ UNCHANGED <<coverVars, eqSettings, settingsVolume, queue, cursor,
                 currentSongId, endedPending, endedCount, handled>>

\* pause()
Pause ==
  /\ audio' = [audio EXCEPT !.paused = TRUE]
  /\ last' = Op("pause")
  /\ UNCHANGED <<coverVars, graphVars, tasks, eqSettings, settingsVolume, queue,
                 cursor, currentSongId, endedPending, endedCount, handled>>

\* setSong that writes the id to the player before it asks the store.
SetSongDirect(id) ==
  /\ currentSongId' = id
  /\ audio' = storeSetSong(id).audio
  /\ last' = [Op("setSong") EXCEPT !.arg = id, !.err = storeSetSong(id).error]
  /\ UNCHANGED <<coverVars, graphVars, tasks, eqSettings, settingsVolume, queue,
                 cursor, endedPending, endedCount, handled>>

\* setSong(id): await musicStore.setSong(id); what the store signals, the
\* call signals
SetSong(id) ==
  /\ currentSongId' = storeSetSong(id).song
  /\ audio' = storeSetSong(id).audio
  /\ last' = [Op("setSong") EXCEPT !.arg = id, !.err = storeSetSong(id).error]
  /\ UNCHANGED <<coverVars, graphVars, tasks, eqSettings, settingsVolume, queue,
                 cursor, endedPending, endedCount, handled>>

\* setEqGain(filterIndex, gain): musicStore.setEqGain(filterIndex, gain)
SetEqGain(filterIndex, gain) ==
  /\ eqSettings' = storeSetEqGain(filterIndex, gain).settings
  /\ eqFilters' = storeSetEqGain(filterIndex, gain).filters
  /\ last' = Op("setEqGain")
  /\ UNCHANGED <<coverVars, audioContext, ctxState, sourceNode, analyser, edges,
                 constructions, tasks, settingsVolume, audio, queue, cursor,
                 currentSongId, endedPending, endedCount, handled>>

\* applyEqSettings(): musicStore.applyEqSettings(settingsStore.getEq())
ApplyEqSettings ==
  /\ eqFilters' = IF eqFilters = <<>> THEN eqFilters
                  ELSE applyEqSettings(eqFilters, eqSettings)
  /\ last' = Op("applyEqSettings")
  /\ UNCHANGED <<coverVars, audioContext, ctxState, sourceNode, analyser, edges,
                 constructions, tasks, eqSettings, settingsVolume, audio, queue,
                 cursor, currentSongId, endedPending, endedCount, handled>>

\* setQueue(songIds): musicStore.setQueue(songIds)
SetQueue(songIds) ==
  /\ queue' = storeSetQueue(songIds).queue
  /\ cursor' = storeSetQueue(songIds).cursor
  /\ last' = Op("setQueue")
  /\ UNCHANGED <<coverVars, graphVars, tasks, eqSettings, settingsVolume, audio,
                 currentSongId, endedPending, endedCount, handled>>

\* skip() called twice over.
SkipTwice == cursor' = storeSkip(queue, storeSkip(queue, cursor))

\* skip(): musicStore.skip(), and nothing else
Skip == cursor' = storeSkip(queue, cursor)

\* The record of a skip() call: how many skip() calls in a row this makes
\* (counted up to the length of the queue) and the cursor the row began at.
SkipRun ==
  IF last.op = "skip" /\ last.n < Len(queue)
  THEN [last EXCEPT !.n = @ + 1]
  ELSE [Op("skip") EXCEPT !.n = 1, !.from = cursor]

\* skip() called by the user interface
CallSkip ==
  /\ Skip
  /\ last' = SkipRun
  /\ UNCHANGED <<coverVars, graphVars, tasks, eqSettings, settingsVolume, audio,
                 queue, currentSongId, endedPending, endedCount, handled>>

\* The codes of a MediaError.
MEDIA_ERR_ABORTED == 1
MEDIA_ERR_NETWORK == 2
MEDIA_ERR_DECODE == 3
MEDIA_ERR_SRC_NOT_SUPPORTED == 4

\* The codes the 'error' event is dispatched with: the four above, a code
\* that is none of them, and NoMediaError for e.target.error being null.
NoMediaError == 0
ErrorCodes == {NoMediaError, MEDIA_ERR_ABORTED, MEDIA_ERR_NETWORK, MEDIA_ERR_DECODE,
               MEDIA_ERR_SRC_NOT_SUPPORTED,  MEDIA_ERR_SRC_NOT_SUPPORTED + 1}

\* switch (mediaError.code): what console.error is given
errorMessage(code) ==
  CASE code = NoMediaError -> ""
    [] code = MEDIA_ERR_ABORTED -> "You aborted the media playback."
    [] code = MEDIA_ERR_NETWORK -> "A network error caused the media download to fail."
    [] code = MEDIA_ERR_DECODE -> "The media playback was aborted due to a corruption problem."
    [] code = MEDIA_ERR_SRC_NOT_SUPPORTED -> "The media source is not supported."
    [] OTHER -> "An unknown error occurred."

\* An 'error' listener that goes on to the next song.
onErrorSkip == Skip /\ UNCHANGED audio

\* The body of the 'error' listener but for its console.error calls:
\* nothing
onError == UNCHANGED <<audio, cursor>>

\* One 'error' event of the audio element is dispatched and its listener
\* runs to its end.
ErrorListener(code) ==
  /\ onError
  /\ last' = [Op("error") EXCEPT !.err = errorMessage(code), !.n = code]
  /\ UNCHANGED <<coverVars, graphVars, tasks, eqSettings, settingsVolume, queue,
                 currentSongId, endedPending, endedCount, handled>>

\* rewind(): musicStore.rewind(), and nothing else.  Whether the playback
\* time is past the restart threshold is the store's to tell.
Rewind(restart) ==
  /\ cursor' = storeRewind(queue, cursor, restart)
  /\ last' = Op("rewind")
  /\ UNCHANGED <<coverVars, graphVars, tasks, eqSettings, settingsVolume, audio,
                 queue, currentSongId, endedPending, endedCount, handled>>

\* The playing song reaches its end: the audio element queues 'ended'.
TrackEnds ==
  /\ currentSongId # NoSong
  /\ ~audio.paused
  /\ ~audio.ended
  /\ endedCount < MaxEnded
  /\ audio' = [audio EXCEPT !.ended = TRUE]
  /\ endedPending' = endedPending + 1
  /\ endedCount' = endedCount + 1
  /\ last' = Op("trackEnds")
  /\ UNCHANGED <<coverVars, graphVars, tasks, eqSettings, settingsVolume, queue,
                 cursor, currentSongId, handled>>

\* One 'ended' event is dispatched: the element that has ended is paused,
\* then the listener runs, music.skip(), to its end.
EndedListener ==
  /\ endedPending > 0
  /\ endedPending' = endedPending - 1
  /\ audio' = IF audio.ended THEN [audio EXCEPT !.paused = TRUE] ELSE audio
  /\ Skip
  /\ handled' = [events |-> handled.events + 1, skips |-> handled.skips + 1]
  /\ last' = Op("ended")
  /\ UNCHANGED <<coverVars, graphVars, tasks, eqSettings, settingsVolume, queue,
                 currentSongId, endedCount>>

\* setVolume(level) called by the user interface
SetVolume(level) ==
  /\ audio' = [audio EXCEPT !.volume = setVolume(level)]
  /\ last' = [Op("setVolume") EXCEPT !.n = level]
  /\ UNCHANGED <<coverVars, graphVars, tasks, eqSettings, settingsVolume, queue,
                 cursor, currentSongId, endedPending, endedCount, handled>>

\* The branches of playPause the wrong way round.
togglePlaybackInverted(a) ==
  IF a.paused THEN [a EXCEPT !.paused = TRUE]
  ELSE [a EXCEPT !.paused = FALSE, !.ended = FALSE]

\* if (audio.paused) audio.play(); else audio.pause();
togglePlayback(a) ==
  IF a.paused THEN [a EXCEPT !.paused = FALSE, !.ended = FALSE]
  ELSE [a EXCEPT !.paused = TRUE]

\* The record of a playPause() call: how many playPause() calls in a row
\* this makes (counted up to two), whether the element was paused (1) or
\* not (0) when the row began, and whether its volume then was another than
\* the one the settings ask for.
PlayPauseRun ==
  IF last.op = "playPause" /\ last.n < 2
  THEN [last EXCEPT !.n = @ + 1]
  ELSE [Op("playPause") EXCEPT
          !.arg = IF audio.volume = setVolume(settingsVolume) THEN "" ELSE "drifted",
          !.n = 1,
          !.from = IF audio.paused THEN 1 ELSE 0]

\* playPause()
PlayPause ==
  /\ audio' = togglePlayback([audio EXCEPT !.volume = setVolume(settingsVolume)])
  /\ last' = PlayPauseRun
  /\ UNCHANGED <<coverVars, graphVars, tasks, eqSettings, settingsVolume, queue,
                 cursor, currentSongId, endedPending, endedCount, handled>>

\* Code outside the plugin sets the volume of the element getAudio() hands
\* out.
VolumeDrift(g) ==
  /\ audio.volume # g
  /\ audio' = [audio EXCEPT !.volume = g]
  /\ last' = Op("volumeDrift")
  /\ UNCHANGED <<coverVars, graphVars, tasks, eqSettings, settingsVolume, queue,
                 cursor, currentSongId, endedPending, endedCount, handled>>

\* The user moves the volume slider: settingsStore.getVolume() returns v
\* from now on.
SettingsVolumeChanged(v) ==
  /\ settingsVolume # v
  /\ settingsVolume' = v
  /\ last' = Op("settingsVolume")
  /\ UNCHANGED <<coverVars, graphVars, tasks, eqSettings, audio, queue, cursor,
                 currentSongId, endedPending, endedCount, handled>>

-----------------------------------------------------------------------------
(* The graph and the equalizer: play, ensureAudioContextAndFilters and the *)
(* equalizer settings, in any interleaving at the await points.            *)

CoverIdle ==
  /\ disk = SourceFiles
  /\ db = [id \in PlaylistIds |-> NoPath]
  /\ call = [c \in Callers |-> IdleCall]
  /\ res = IdleRes
  /\ blobs = <<>>
  /\ seen = [id \in ResolveIds |-> {}]

GraphInit == CoverIdle /\ PlayerInit

GraphNext ==
  \/ \E s \in {"suspended", "running"} : Play(s)
  \/ \E s \in {"suspended", "running"} : CallEnsure(s)
  \/ EnsureAfterApply
  \/ ResumeDone
  \/ HostSuspend
  \/ Pause
  \/ \E id \in Catalog \cup {UnknownSong} : SetSong(id)
  \/ \E b \in 1..(NumBands + 1), g \in Gains : SetEqGain(b, g)
  \/ ApplyEqSettings

SpecGraph == GraphInit /\ [][GraphNext]_vars

-----------------------------------------------------------------------------
(* The queue and the transport: the 'ended' events of the audio element    *)
(* among the calls of the user interface.                                  *)

Queues == UNION {[1..n -> Catalog] : n \in 0..MaxQueue}

TransportNext ==
  \/ \E s \in {"suspended", "running"} : Play(s)
  \/ EnsureAfterApply
  \/ ResumeDone
  \/ Pause
  \/ \E id \in Catalog \cup {UnknownSong} : SetSong(id)
  \/ \E q \in Queues : SetQueue(q)
  \/ CallSkip
  \/ \E restart \in BOOLEAN : Rewind(restart)
  \/ \E code \in ErrorCodes : ErrorListener(code)
  \/ TrackEnds
  \/ EndedListener

SpecTransport == GraphInit /\ [][TransportNext]_vars

-----------------------------------------------------------------------------
(* The volume: setVolume and playPause among changes of the settings and   *)
(* of the element's volume from outside.                                   *)

\* The levels setVolume is called with: every level of the slider, one
\* below and one above its range.
Levels == {-5, 110} \cup 0..100

\* The values the settings store holds for the volume.
SettingsVolumes == {0, 1, 50, 100}

\* The gains set from outside: 0.5 and 1.
HalfVolume == <<50000000, 0>>

VolumeNext ==
  \/ \E level \in Levels : SetVolume(level)
  \/ PlayPause
  \/ \E g \in {HalfVolume, FullVolume} : VolumeDrift(g)
  \/ \E v \in SettingsVolumes : SettingsVolumeChanged(v)
  \/ \E id \in Catalog \cup {UnknownSong} : SetSong(id)
  \/ Pause

SpecVolume == GraphInit /\ [][VolumeNext]_vars

-----------------------------------------------------------------------------
(* The claims about the audio graph and the equalizer.                     *)

\* audioContext.destination
Destination == audioContext + 1

\* C6: over any interleaving of play() and ensureAudioContextAndFilters()
\* calls the graph is built at most once, and once built it is the graph of
\* that one construction: never replaced, never absent again.
C6_GraphBuiltOnce ==
  /\ constructions <= 1
  /\ constructions = 0 => audioContext = NoNode
  /\ constructions >= 1 =>
       /\ audioContext = Handle(1, 0)
       /\ sourceNode = Handle(1, 2)
       /\ analyser = Handle(1, 3)
       /\ DOMAIN eqFilters = Bands
       /\ \A b \in Bands : eqFilters[b].node = Handle(1, 3 + b)

\* C6's case: the graph was built once, the call that built it still waits
\* for the equalizer settings, and a second call, started meanwhile, waits
\* for resume().
C6_Witness ==
  /\ constructions = 1
  /\ tasks.afterApply = 1
  /\ tasks.awaitResume = 1

\* C7: the built graph's signal path is source -> each band filter in band
\* order -> analyser -> output, and the source is connected neither to the
\* analyser nor to the output past the filters.
C7_SignalPath ==
  audioContext # NoNode =>
    /\ <<sourceNode, eqFilters[1].node>> \in edges
    /\ \A b \in 1..(NumBands - 1) :
         <<eqFilters[b].node, eqFilters[b + 1].node>> \in edges
    /\ <<eqFilters[NumBands].node, analyser>> \in edges
    /\ <<analyser, Destination>> \in edges
    /\ <<sourceNode, analyser>> \notin edges
    /\ <<sourceNode, Destination>> \notin edges

\* C8: when the graph is first built, the live filter of every band gets
\* the gain stored for it in the persisted settings (the gain a setEqGain
\* before the build stored, the prior value for the other bands).
C8_StoredEqApplied ==
  [][(audioContext = NoNode /\ audioContext' # NoNode) =>
       \A b \in Bands : eqFilters'[b].gain = eqSettings[b].gainDb]_vars

-----------------------------------------------------------------------------
(* The claims about the 'ended' event.                                     *)

\* Idle, Paused or Playing, from the loaded song and the audio element.
TransportState ==
  IF currentSongId = NoSong THEN "Idle"
  ELSE IF audio.paused THEN "Paused"
  ELSE "Playing"

\* C9: handling an 'ended' event skips, loads the queue's current song and
\* plays it: with a non-empty queue the state afterwards is Playing with
\* currentSongId the entry at the advanced cursor, with an empty queue Idle.
C9_EndedAdvancesAndPlays ==
  [][handled'.events = handled.events + 1 =>
       IF Len(queue) = 0
       THEN TransportState' = "Idle"
       ELSE /\ cursor' = (cursor + 1) % Len(queue)
            /\ currentSongId' = queue[cursor' + 1]
            /\ TransportState' = "Playing"]_vars

-----------------------------------------------------------------------------
(* The claims about the transport calls.                                   *)

\* C11: at the step in which play() starts rendering, the graph exists and
\* its context is not suspended, the gain is the curve's value for the
\* settings volume, and with a song loaded the state afterwards is Playing
\* (also when it was Playing before).
C11_PlayInOrder ==
  [][last'.op = "play" =>
       /\ audioContext' # NoNode
       /\ ctxState' = "running"
       /\ audio'.volume = setVolume(settingsVolume)
       /\ currentSongId # NoSong => TransportState' = "Playing"]_vars

\* C12: playPause() toggles on the rendering status: from a paused element
\* with a song loaded the state is Playing afterwards, from a rendering one
\* Paused; the gain afterwards is the curve's value for the settings volume,
\* whatever it was before; and after two playPause() calls in a row the
\* status is the one the row began at.
C12_PlayPauseToggles ==
  /\ [](last.op = "playPause" /\ last.n = 2 => audio.paused = (last.from = 1))
  /\ [][last'.op = "playPause" =>
          /\ audio'.paused = ~audio.paused
          /\ currentSongId # NoSong =>
               TransportState' = IF audio.paused THEN "Playing" ELSE "Paused"
          /\ audio'.volume = setVolume(settingsVolume)]_vars

\* C12's case: two playPause() calls in a row are over, begun while a
\* loaded song was rendering at a volume other than the settings'.
C12_Witness ==
  /\ last.op = "playPause"
  /\ last.n = 2
  /\ last.from = 0
  /\ last.arg = "drifted"
  /\ currentSongId # NoSong

-----------------------------------------------------------------------------
(* The claims about the volume.                                            *)

\* C13: setVolume(0) sets the gain 0; a level below 1 other than 0 sets the
\* gain level 1 sets, a level above 100 the gain level 100 sets; and after
\* any sequence of calls the gain the last setVolume set is 0 or lies
\* between the gains of level 1 and of level 100.
C13_SilenceAndClamp ==
  last.op = "setVolume" =>
    /\ last.n = 0 => audio.volume = Silence
    /\ last.n < 1 /\ last.n # 0 => audio.volume = setVolume(1)
    /\ last.n > 100 => audio.volume = setVolume(100)
    /\ \/ audio.volume = Silence
       \/ /\ GainLeq(ExpTable[1], audio.volume)
          /\ GainLeq(audio.volume, ExpTable[100])

\* C13's case: setVolume was called with a level above 100 and the gain is
\* the one of level 100.
C13_Witness ==
  /\ last.op = "setVolume"
  /\ last.n > 100
  /\ audio.volume = ExpTable[100]

\* C14: the gain of level 0 is 0 and the gain of level 100 is 1.0 exactly;
\* no level of 0..100 below the level set has a greater gain; and the gain
\* set for a level is the same whatever was set before.
C14_CurveEndpoints ==
  last.op = "setVolume" /\ last.n \in 0..100 =>
    /\ last.n = 0 => audio.volume = Silence
    /\ last.n = 100 => audio.volume = FullVolume
    /\ \A a \in 0..last.n : GainLeq(setVolume(a), audio.volume)
    /\ audio.volume = setVolume(last.n)

-----------------------------------------------------------------------------
(* The claims about setSong and the queue.                                 *)

-----------------------------------------------------------------------------
(* The claim about the 'error' event.                                      *)

\* C17: handling an 'error' event of the audio element, whatever its code,
\* leaves the queue, the cursor, currentSongId, the audio graph, the audio
\* element with its volume, and the pending calls and events as they were:
\* the listener issues no setSong, play or skip.
C17_ErrorChangesNothing ==
  [][last'.op = "error" =>
       /\ UNCHANGED <<queue, cursor, currentSongId, audio>>
       /\ UNCHANGED <<graphVars, tasks, eqSettings, settingsVolume>>
       /\ UNCHANGED <<endedPending, endedCount, handled>>]_vars

\* C17's case: a decode error was handled while a song of a queue of two
\* was playing through the built graph.
C17_Witness ==
  /\ last.op = "error"
  /\ last.n = MEDIA_ERR_DECODE
  /\ last.err # ""
  /\ Len(queue) = 2
  /\ TransportState = "Playing"
  /\ audioContext # NoNode

-----------------------------------------------------------------------------
(* The claim about ensureAudioContextAndFilters on a built graph.          *)

\* C19: a call of ensureAudioContextAndFilters on a graph that exists
\* creates no node, adds no connection and writes no filter gain; on a
\* running context it changes nothing at all; on a suspended one it goes on
\* to resume(), and when that is over the context is running.
C19_ExistingGraphOnlyResumed ==
  /\ [][last'.op = "ensure" /\ audioContext # NoNode =>
          /\ UNCHANGED <<audioContext, sourceNode, analyser, eqFilters, edges,
                         constructions, ctxState>>
          /\ ctxState = "running" => tasks' = tasks
          /\ ctxState = "suspended" =>
               tasks' = [tasks EXCEPT !.awaitResume = @ + 1]]_vars
  /\ [][last'.op = "resumeDone" => ctxState' = "running"]_vars

\* C19's case: a call of ensureAudioContextAndFilters has just come to a
\* built graph whose context is suspended and whose filters do not carry
\* the stored gains; nothing but its resume() is pending (the call that
\* built the graph is over).
C19_Witness ==
  /\ last.op = "ensure"
  /\ constructions = 1
  /\ ctxState = "suspended"
  /\ tasks = [afterApply |-> 0, awaitResume |-> 1]
  /\ \E b \in Bands : eqFilters[b].gain # eqSettings[b].gainDb

-----------------------------------------------------------------------------
(* The claims about overlapping cover updates and the commit point.        *)

\* C18: with the calls of two callers on one playlist id interleaved at
\* their await points, every id has at most one cover file in every state,
\* and once both calls have finished the persisted cover path of the id
\* names a file that is on the disk.
C18_OneCoverUnderOverlap ==
  /\ \A id \in PlaylistIds : Cardinality(CoverFilesOf(disk, id)) <= 1
  /\ (\A c \in Callers : call[c].pc = "done") => exists(disk, db[SharedId])

\* C20: the persisted cover path of a playlist changes only in the
\* successful UPDATE that ends a call, when every cover the call found for
\* the id is removed and the new file is written; after a successful call
\* the persisted path is Vleer/Covers/<playlistId>.<suffix of the source
\* path>, and that file is on the disk with the bytes of the source; and a
\* call whose source is the playlist's current cover file gets there too:
\* when it comes to read its source, the file is still on the disk.
C20_UpdateIsCommitPoint ==
  /\ [](\A c \in Callers :
          LET k == call[c]
              new == newCoverPath(k.playlistId, k.coverPath.str)
          IN  /\ k.pc = "done" =>
                   /\ db[k.playlistId] = new
                   /\ new = CoversDir \o <<k.playlistId, ".">>
                               \o extension(k.coverPath.str)
                   /\ exists(disk, new)
                   /\ readFile(disk, new) = k.data
                   /\ \A p \in DOMAIN k.preCovers : p # new => ~exists(disk, p)
              /\ (/\ k.pc = "read"
                  /\ k.coverPath.str = k.preCover
                  /\ k.preCover \in DOMAIN k.preCovers)
                   => exists(disk, k.coverPath.str))
  /\ [][db' # db =>
          \E c \in Callers :
            /\ call[c].pc = "update"
            /\ call'[c].pc = "done"
            /\ disk' = disk
            /\ \A id \in PlaylistIds :
                 id # call[c].playlistId => db'[id] = db[id]]_vars

====
